---- MODULE Spec2Model ----
(***************************************************************************)
(* Model of the recording store of src/src/storage.cpp: the Storage state  *)
(* machine (Idle / Error / Recording / Reading) over an SD card medium.    *)
(* The medium is the directory /recordings of byte files; every medium     *)
(* primitive may fail, up to MaxFaults failures in a behaviour.            *)
(***************************************************************************)
EXTENDS Integers, Sequences, FiniteSets, TLC

\* ---------------------------------------------------------------- constants
MaxIndex == 10000
MaxLen == 255
FloatSize == 4
NameSize == 6

\* ------------------------------------------------------------------- bounds
\* how far below MaxIndex the late scan cursor of Init starts
CursorsFromEnd == 1
\* files the medium may hold before create_new_recording stops being explored
MaxFiles == 2
\* write_record calls explored per recording
MaxRecords == 1
\* medium failures explored in one behaviour
MaxFaults == 1
\* the highest scan cursor the sessions of SpecReuse create recordings from
MaxCursor == 1

\* ------------------------------------------------------------ small helpers
Min(a, b) == IF a < b THEN a ELSE b
Max(S) == CHOOSE x \in S : \A y \in S : y <= x

RECURSIVE Flatten(_)
Flatten(ss) == IF ss = <<>> THEN <<>> ELSE Head(ss) \o Flatten(Tail(ss))

DigitChar(d) ==
  CASE d = 0 -> "0" [] d = 1 -> "1" [] d = 2 -> "2" [] d = 3 -> "3"
    [] d = 4 -> "4" [] d = 5 -> "5" [] d = 6 -> "6" [] d = 7 -> "7"
    [] d = 8 -> "8" [] d = 9 -> "9"

\* decimal digits of a non-negative int, most significant first
RECURSIVE Decimal(_)
Decimal(i) == IF i < 10 THEN <<DigitChar(i)>>
              ELSE Decimal(i \div 10) \o <<DigitChar(i % 10)>>

RECURSIVE ZeroPad(_, _)
ZeroPad(s, w) == IF Len(s) >= w THEN s ELSE ZeroPad(<<"0">> \o s, w)

\* a name formatted with "%d": no zero padding
FormatNameUnpadded(i) == Decimal(i)

\* snprintf(recording_name, 6, "%05d", i): zero padded to 5, cut at 5 chars
FormatName(i) ==
  LET full == ZeroPad(Decimal(i), 5)
  IN SubSeq(full, 1, Min(Len(full), NameSize - 1))

DirPrefix == <<"/", "r", "e", "c", "o", "r", "d", "i", "n", "g", "s", "/">>
RecExt == <<".", "r", "e", "c">>

build_recording_path(name) == DirPrefix \o name \o RecExt

\* ------------------------------------------------------------- float values
\* IEEE-754 single precision, native (little endian) byte images
F1 == <<0, 0, 128, 63>>
F2 == <<0, 0, 0, 64>>
F3 == <<0, 0, 64, 64>>

\* (const uint8_t*) data : the byte image of a float array
FloatBytes(values) ==
  [k \in 1..(FloatSize * Len(values)) |->
     values[((k - 1) \div FloatSize) + 1][((k - 1) % FloatSize) + 1]]

\* (float*) view of a byte buffer holding whole floats
BytesAsFloats(bytes) ==
  [k \in 1..(Len(bytes) \div FloatSize) |->
     SubSeq(bytes, FloatSize * (k - 1) + 1, FloatSize * k)]

\* the arrays callers hand to write_record
LongData == [k \in 1..MaxLen |-> IF k % 2 = 1 THEN F1 ELSE F2]
DataChoices == { <<F1, F2, F3>> }
LongChoices == { <<F1, F2, F3>>, LongData }
\* the capacities callers hand to read_record (uint8_t)
Capacities == {1, 3, 9}
LongCapacities == {3, 9, MaxLen}
\* the names callers hand to open_recording / remove_recording
TailStart == MaxIndex - CursorsFromEnd
NameChoices == { FormatName(0), FormatName(MaxIndex - 1) }
EarlyNames == { FormatName(i) : i \in 0..MaxCursor }

States == {"Idle", "Error", "Recording", "Reading"}
Errors == {"None", "CanNotInitialize", "CanNotOpenFile", "CanNotRemoveFile",
           "FileSystemError", "TooManyFiles"}

\* an invalid (closed) File object
NoFile == [open |-> FALSE, path |-> <<>>, pos |-> 0, writing |-> FALSE]

VARIABLES
  state,                  \* _state
  error,                  \* _error
  last_file_index,        \* _last_file_index
  current_file,           \* _current_file
  current_recording_name, \* _current_recording_name
  sd,                     \* the medium: [dir, dirs, files]
  faults,                 \* medium failures since the store was constructed
  written,                \* the recording last created and the arrays write_record accepted for it
  read_back,              \* the whole floats each read_record delivered while Reading this file
  lastOp, lastArg, ret,   \* the last public call, its argument, its result
  data,                   \* bytes the last read_record put in the caller's buffer
  trace,                  \* lock and medium events of the last call
  closed,                 \* history: the recordings closed so far, and whether removed since
  progress                \* history: calls of the reference session made so far, -1 once left

vars == <<state, error, last_file_index, current_file, current_recording_name,
          sd, faults, written, read_back, lastOp, lastArg, ret, data,
          trace, closed, progress>>

Ev(prim, result) == <<prim, result>>
\* an exit path that returns with the bus lock still held
UnlockForgotten == Ev("return", 0)
\* std::lock_guard<std::mutex> lock(_spi_mutex): its constructor and destructor
Lock == Ev("lock", 0)
Unlock == Ev("unlock", 0)
B(ok) == IF ok THEN 1 ELSE 0
\* outcomes a medium primitive can have
Outcomes == IF faults < MaxFaults THEN {TRUE, FALSE} ELSE {TRUE}
NoLog == [name |-> <<>>, records |-> <<>>]

\* ------------------------------------------------------------------ set_error
\* set_error that forgets to move the store to Error
set_error_keeps_state(st, e) == [state |-> st, error |-> e]

\* set_error that reports every failure with the same code
set_error_one_code(st, e) == [state |-> "Error", error |-> "FileSystemError"]

\* set_error that forgets to store the code
set_error_drops_code(st, e) == [state |-> "Error", error |-> "None"]

\* st: _state on entry
set_error(st, e) == [state |-> "Error", error |-> e]

\* ----------------------------------------------------------------------- init
\* st, er, card: _state, _error and the medium on entry
init(st, er, card, mountOk, mkdirOk) ==
  IF ~mountOk
  THEN [ret |-> FALSE, state |-> set_error(st, "CanNotInitialize").state,
        error |-> set_error(st, "CanNotInitialize").error, sd |-> card,
        trace |-> <<Lock, Ev("mount", 0), Unlock>>]
  ELSE IF ~card.dir
  THEN IF ~mkdirOk
       THEN [ret |-> FALSE, state |-> set_error(st, "FileSystemError").state,
             error |-> set_error(st, "FileSystemError").error, sd |-> card,
             trace |-> <<Lock, Ev("mount", 1), Ev("exists", 0),
                         Ev("mkdir", 0), Unlock>>]
       ELSE [ret |-> TRUE, state |-> "Idle", error |-> er,
             sd |-> [card EXCEPT !.dir = TRUE],
             trace |-> <<Lock, Ev("mount", 1), Ev("exists", 0),
                         Ev("mkdir", 1), Unlock>>]
  ELSE [ret |-> TRUE, state |-> "Idle", error |-> er, sd |-> card,
        trace |-> <<Lock, Ev("mount", 1), Ev("exists", 1), Unlock>>]

\* ---------------------------------------------------------------- initial state
\* one complete record <<F1>> as an earlier session of the store left it
OldRecord == <<1>> \o FloatBytes(<<F1>>)
OldContents == { OldRecord }
\* a card whose /recordings holds the recordings of the indices in is
Card(is) ==
  [dir |-> TRUE, dirs |-> {},
   files |-> [p \in { build_recording_path(FormatName(i)) : i \in is } |-> OldRecord]]
NoDirCard == [dir |-> FALSE, dirs |-> {}, files |-> <<>>]
\* the values the members of Storage hold before the constructor body runs
Members == [state |-> "Error", error |-> "None", last_file_index |-> 0]

\* the scan cursor and the card the store starts from: the initial cursor
\* after construction, or cursor TailStart once that many recordings were closed
Starts ==
  { <<Members.last_file_index, NoDirCard>>, <<Members.last_file_index, Card({})>>,
    <<Members.last_file_index, Card({0})>>,
    <<TailStart, Card((TailStart + 1)..(MaxIndex - 1))>> }

\* a store just constructed on a working medium whose /recordings is empty
Fresh ==
  /\ state = "Idle" /\ error = "None"
  /\ last_file_index = Members.last_file_index
  /\ sd.dir /\ DOMAIN sd.files = {}

\* Storage::Storage: member initialisers, then init()
Init ==
  /\ \E start \in Starts, mountOk \in BOOLEAN, mkdirOk \in BOOLEAN :
       LET r == init(Members.state, Members.error, start[2], mountOk, mkdirOk)
       IN /\ last_file_index = start[1]
          /\ state = r.state
          /\ error = r.error
          /\ sd = r.sd
          /\ trace = r.trace
          /\ ret = r.ret
          /\ faults = 0
  /\ written = NoLog
  /\ read_back = <<>>
  /\ current_file = NoFile
  /\ current_recording_name = <<>>
  /\ lastOp = "Storage"
  /\ lastArg = <<>>
  /\ data = <<>>
  /\ closed = <<>>
  /\ progress = IF Fresh THEN 0 ELSE -1

\* a state check that lets the Idle operations through in Error
CheckStateSkipsError(current, expected) ==
  current # expected /\ ~(current = "Error" /\ expected = "Idle")

\* a state check that never refuses an Idle operation
CheckStateSkipsIdle(current, expected) ==
  current # expected /\ expected # "Idle"

\* the state check every operation starts with: TRUE when the call is refused
STORAGE_CHECK_STATE(current, expected) == current # expected

\* what a refused call leaves behind
Refused(op, failure) ==
  /\ lastOp' = op
  /\ lastArg' = <<>>
  /\ ret' = failure
  /\ trace' = <<>>
  /\ data' = <<>>
  /\ UNCHANGED <<state, error, last_file_index, current_file,
                 current_recording_name, sd, faults, written, read_back>>

\* ---------------------------------------------------------------- clear_error
clear_error ==
  \E mountOk \in Outcomes, mkdirOk \in Outcomes :
    LET r == init(state, error, sd, mountOk, mkdirOk)
    IN /\ state' = r.state
       /\ error' = IF r.ret THEN "None" ELSE r.error
       /\ sd' = r.sd
       /\ trace' = r.trace
       /\ ret' = r.ret
       /\ lastOp' = "clear_error"
       /\ lastArg' = <<>>
       /\ data' = <<>>
       /\ faults' = faults + B(~r.ret)
       /\ read_back' = <<>>
       /\ UNCHANGED <<last_file_index, current_file, current_recording_name,
                      written>>

\* ------------------------------------------------------------ medium helpers
Exists(card, path) == path \in DOMAIN card.files

\* a removal that empties the file and leaves its directory entry
RemoveFileKeepsEntry(card, path) == [card EXCEPT !.files[path] = <<>>]

\* SD.remove(path) succeeding
RemoveFile(card, path) ==
  [card EXCEPT !.files = [p \in (DOMAIN card.files) \ {path} |-> card.files[p]]]

\* SD.open(path, FILE_WRITE): the file is created empty
CreateFile(card, path) ==
  [card EXCEPT !.files = [p \in (DOMAIN card.files) \cup {path} |->
                            IF p = path THEN <<>> ELSE card.files[p]]]

AppendBytes(card, path, bytes) ==
  [card EXCEPT !.files[path] = card.files[path] \o bytes]

\* the orders in which a directory may report the files of a set
RECURSIVE Orders(_)
Orders(S) == IF S = {} THEN { <<>> }
             ELSE UNION { { <<p>> \o o : o \in Orders(S \ {p}) } : p \in S }

HasPrefix(s, pre) == Len(s) >= Len(pre) /\ SubSeq(s, 1, Len(pre)) = pre

LowerChar(c) == CASE c = "R" -> "r" [] c = "E" -> "e" [] c = "C" -> "c"
                  [] OTHER -> c
\* a comparison that minds the case: strcmp for strcasecmp
LowerNot(s) == s

\* the case folding of strcasecmp
Lower(s) == [k \in 1..Len(s) |-> LowerChar(s[k])]

\* the entry a directory child contributes to list_recordings, <<>> if none
EntryOf(card, path) ==
  IF path \notin card.dirs /\ HasPrefix(path, DirPrefix)
  THEN LET entry_name == SubSeq(path, Len(DirPrefix) + 1, Len(path))
           entry_name_len == Len(entry_name)
       IN IF entry_name_len >= 4
             /\ Lower(SubSeq(entry_name, entry_name_len - 3, entry_name_len)) = RecExt
          THEN << [name |-> SubSeq(entry_name, 1, entry_name_len - 4),
                   size |-> Len(card.files[path])] >>
          ELSE <<>>
  ELSE <<>>

\* ------------------------------------------------------------ list_recordings
list_recordings ==
  IF STORAGE_CHECK_STATE(state, "Idle")
  THEN Refused("list_recordings", <<>>)
  ELSE \E dirOk \in Outcomes, order \in Orders(DOMAIN sd.files \cup sd.dirs) :
         /\ lastOp' = "list_recordings"
         /\ lastArg' = <<>>
         /\ data' = <<>>
         /\ IF ~dirOk
            THEN /\ state' = set_error(state, "CanNotOpenFile").state
                 /\ error' = set_error(state, "CanNotOpenFile").error
                 /\ ret' = <<>>
                 /\ trace' = <<Lock, Ev("open", 0), Unlock>>
                 /\ faults' = faults + 1
            ELSE /\ ret' = Flatten([k \in 1..Len(order) |-> EntryOf(sd, order[k])])
                 /\ trace' = <<Lock, Ev("open", 1)>>
                             \o [k \in 1..Len(order) |-> Ev("openNextFile", order[k])]
                             \o <<Ev("openNextFile", <<>>), Ev("close", 1), Unlock>>
                 /\ UNCHANGED <<state, error, faults>>
         /\ UNCHANGED <<last_file_index, current_file, current_recording_name,
                        sd, written, read_back>>

\* ----------------------------------------------------------- remove_recording
remove_recording(name) ==
  IF STORAGE_CHECK_STATE(state, "Idle")
  THEN Refused("remove_recording", FALSE)
  ELSE \E removeOk \in Outcomes :
         LET path == build_recording_path(name)
         IN /\ lastOp' = "remove_recording"
            /\ lastArg' = name
            /\ data' = <<>>
            /\ IF Exists(sd, path)
               THEN IF ~removeOk
                    THEN /\ state' = set_error(state, "CanNotRemoveFile").state
                         /\ error' = set_error(state, "CanNotRemoveFile").error
                         /\ ret' = FALSE
                         /\ sd' = sd
                         /\ trace' = <<Lock, Ev("exists", 1), Ev("remove", 0), Unlock>>
                         /\ faults' = faults + 1
                    ELSE /\ ret' = TRUE
                         /\ sd' = RemoveFile(sd, path)
                         /\ trace' = <<Lock, Ev("exists", 1), Ev("remove", 1), Unlock>>
                         /\ UNCHANGED <<state, error, faults>>
               ELSE /\ ret' = FALSE
                    /\ trace' = <<Lock, Ev("exists", 0), Unlock>>
                    /\ UNCHANGED <<state, error, sd, faults>>
            /\ UNCHANGED <<last_file_index, current_file, current_recording_name,
                           written, read_back>>

\* ------------------------------------------------------- create_new_recording
\* a scan whose bound is off by one: it also tries index MaxIndex
RECURSIVE ScanPastLimit(_, _)
ScanPastLimit(card, i) ==
  IF i > MaxIndex THEN -1
  ELSE IF ~Exists(card, build_recording_path(FormatName(i))) THEN i
  ELSE ScanPastLimit(card, i + 1)

\* the for loop of create_new_recording: the index it stops at, -1 if it runs out
RECURSIVE ScanFreeIndex(_, _)
ScanFreeIndex(card, i) ==
  IF i >= MaxIndex THEN -1
  ELSE IF ~Exists(card, build_recording_path(FormatName(i))) THEN i
  ELSE ScanFreeIndex(card, i + 1)

\* a search that starts one index behind the cursor
FindFreeIndexBehind(card, from) ==
  ScanFreeIndex(card, IF from > 0 THEN from - 1 ELSE from)

\* a search for the least free index of the whole card
FindFreeIndexFromZero(card, from) == ScanFreeIndex(card, 0)

\* the index create_new_recording selects with its cursor at from
FindFreeIndex(card, from) == ScanFreeIndex(card, from)

\* the SD.exists calls of the scan from index from, stopping at found (-1: none)
ScanTrace(from, found) ==
  IF found = -1
  THEN [k \in 1..(IF from < MaxIndex THEN MaxIndex - from ELSE 0) |-> Ev("exists", 1)]
  ELSE [k \in 1..(found - from + 1) |-> Ev("exists", B(k < found - from + 1))]

create_new_recording ==
  IF STORAGE_CHECK_STATE(state, "Idle")
  THEN Refused("create_new_recording", <<>>)
  ELSE LET found == FindFreeIndex(sd, last_file_index)
           recording_name == FormatName(found)
           recording_path == build_recording_path(recording_name)
       IN /\ found # -1 => Cardinality(DOMAIN sd.files) < MaxFiles
          /\ lastOp' = "create_new_recording"
          /\ lastArg' = <<>>
          /\ data' = <<>>
          /\ IF found = -1
             THEN /\ state' = set_error(state, "TooManyFiles").state
                  /\ error' = set_error(state, "TooManyFiles").error
                  /\ ret' = <<>>
                  /\ trace' = <<Lock>> \o ScanTrace(last_file_index, found) \o <<Unlock>>
                  /\ UNCHANGED <<current_file, current_recording_name, sd, faults,
                                 written>>
             ELSE \E openOk \in Outcomes :
                    /\ current_recording_name' = recording_name
                    /\ trace' = <<Lock>> \o ScanTrace(last_file_index, found)
                                \o <<Ev("open", B(openOk)), Unlock>>
                    /\ IF ~openOk
                       THEN /\ current_file' = NoFile
                            /\ state' = set_error(state, "CanNotOpenFile").state
                            /\ error' = set_error(state, "CanNotOpenFile").error
                            /\ ret' = <<>>
                            /\ faults' = faults + 1
                            /\ UNCHANGED <<sd, written>>
                       ELSE /\ current_file' = [open |-> TRUE, path |-> recording_path,
                                                pos |-> 0, writing |-> TRUE]
                            /\ sd' = CreateFile(sd, recording_path)
                            /\ state' = "Recording"
                            /\ ret' = recording_name
                            /\ written' = [name |-> recording_name, records |-> <<>>]
                            /\ UNCHANGED <<error, faults>>
          /\ UNCHANGED <<last_file_index, read_back>>

\* --------------------------------------------------------------- write_record
\* byte counts File::write may report for a request of n bytes
WriteCounts(n) == IF faults < MaxFaults THEN {0, 1, n} ELSE {n}

write_record(values, length) ==
  IF STORAGE_CHECK_STATE(state, "Recording")
  THEN Refused("write_record", FALSE)
  ELSE IF length = 0
  THEN /\ lastOp' = "write_record"
       /\ lastArg' = length
       /\ ret' = FALSE
       /\ trace' = <<>>
       /\ data' = <<>>
       /\ UNCHANGED <<state, error, last_file_index, current_file,
                      current_recording_name, sd, faults, written, read_back>>
  ELSE \E k1 \in WriteCounts(1), k2 \in WriteCounts(FloatSize * length) :
         LET path == current_file.path
             payload == SubSeq(FloatBytes(values), 1, k2)
         IN /\ Len(written.records) < MaxRecords
            /\ lastOp' = "write_record"
            /\ lastArg' = length
            /\ data' = <<>>
            /\ IF k1 = 0
               THEN /\ state' = set_error(state, "FileSystemError").state
                    /\ error' = set_error(state, "FileSystemError").error
                    /\ ret' = FALSE
                    /\ sd' = sd
                    /\ trace' = <<Lock, Ev("write", 0), Unlock>>
                    /\ faults' = faults + 1
                    /\ written' = written
               ELSE IF k2 = 0
               THEN /\ state' = set_error(state, "FileSystemError").state
                    /\ error' = set_error(state, "FileSystemError").error
                    /\ ret' = FALSE
                    /\ sd' = AppendBytes(sd, path, <<length>>)
                    /\ trace' = <<Lock, Ev("write", 1), Ev("write", 0), Unlock>>
                    /\ faults' = faults + 1
                    /\ written' = written
               ELSE /\ ret' = TRUE
                    /\ sd' = AppendBytes(sd, path, <<length>> \o payload)
                    /\ trace' = <<Lock, Ev("write", 1), Ev("write", k2), Unlock>>
                    /\ faults' = faults + B(k2 < FloatSize * length)
                    /\ written' = [written EXCEPT !.records =
                                     Append(@, SubSeq(values, 1, length))]
                    /\ UNCHANGED <<state, error>>
            /\ UNCHANGED <<last_file_index, current_file, current_recording_name,
                           read_back>>

\* ------------------------------------------------------------- open_recording
\* an open_recording that reports its failures through set_error
NotOpenedEscalates(st, er) == set_error(st, "CanNotOpenFile")

\* open_recording when the file is missing or cannot be opened: log_e only
NotOpened(st, er) == [state |-> st, error |-> er]

open_recording(name) ==
  IF STORAGE_CHECK_STATE(state, "Idle")
  THEN Refused("open_recording", FALSE)
  ELSE \E openOk \in Outcomes :
         LET path == build_recording_path(name)
         IN /\ lastOp' = "open_recording"
            /\ lastArg' = name
            /\ data' = <<>>
            /\ IF Exists(sd, path)
               THEN IF openOk
                    THEN /\ current_file' = [open |-> TRUE, path |-> path,
                                             pos |-> 0, writing |-> FALSE]
                         /\ state' = "Reading"
                         /\ error' = error
                         /\ ret' = TRUE
                         /\ trace' = <<Lock, Ev("exists", 1), Ev("open", 1), Unlock>>
                         /\ read_back' = <<>>
                         /\ faults' = faults
                    ELSE /\ current_file' = NoFile
                         /\ state' = NotOpened(state, error).state
                         /\ error' = NotOpened(state, error).error
                         /\ ret' = FALSE
                         /\ trace' = <<Lock, Ev("exists", 1), Ev("open", 0), Unlock>>
                         /\ read_back' = read_back
                         /\ faults' = faults + 1
               ELSE /\ ret' = FALSE
                    /\ state' = NotOpened(state, error).state
                    /\ error' = NotOpened(state, error).error
                    /\ trace' = <<Lock, Ev("exists", 0), Unlock>>
                    /\ UNCHANGED <<current_file, read_back, faults>>
            /\ UNCHANGED <<last_file_index, current_recording_name, sd,
                           written>>

\* ---------------------------------------------------------------- read_record
\* read_record past its state check on file f with bytes content: the value
\* returned, the file position left, whether set_error(FileSystemError) ran,
\* the bytes put in the caller's buffer, and the medium events
\* a capacity test that lets a record through when it just fits
TooSmallStrict(data_length, length) == data_length > length

\* the capacity test of read_record: TRUE when the record is refused
TooSmall(data_length, length) == data_length >= length

read_record_body(f, content, length, peekOk, readOk, bulkOk) ==
  LET peeked == IF peekOk /\ f.pos < Len(content) THEN content[f.pos + 1] ELSE -1
  IN IF peeked = -1
     THEN [ret |-> 0, pos |-> f.pos, failed |-> FALSE, data |-> <<>>,
           fault |-> ~peekOk /\ f.pos < Len(content),
           trace |-> <<Lock, Ev("peek", -1), Unlock>>]
     ELSE IF TooSmall(peeked, length)
     THEN [ret |-> -peeked, pos |-> f.pos, failed |-> FALSE, data |-> <<>>,
           fault |-> FALSE,
           trace |-> <<Lock, Ev("peek", peeked), Unlock>>]
     ELSE IF ~readOk
     THEN [ret |-> 0, pos |-> f.pos, failed |-> TRUE, data |-> <<>>,
           fault |-> TRUE,
           trace |-> <<Lock, Ev("peek", peeked), Ev("read", -1), Unlock>>]
     ELSE LET data_length == content[f.pos + 1]
              start == f.pos + 1
              got == IF bulkOk
                     THEN Min(FloatSize * data_length, Len(content) - start)
                     ELSE 0
          IN IF got = 0
             THEN [ret |-> 0, pos |-> start, failed |-> TRUE, data |-> <<>>,
                   fault |-> ~bulkOk,
                   trace |-> <<Lock, Ev("peek", peeked), Ev("read", data_length),
                               Ev("read", 0), Unlock>>]
             ELSE [ret |-> data_length, pos |-> start + got, failed |-> FALSE,
                   fault |-> FALSE,
                   data |-> SubSeq(content, start + 1, start + got),
                   trace |-> <<Lock, Ev("peek", peeked), Ev("read", data_length),
                               Ev("read", got), Unlock>>]

read_record(length) ==
  IF STORAGE_CHECK_STATE(state, "Reading")
  THEN Refused("read_record", 0)
  ELSE \E peekOk \in Outcomes, readOk \in Outcomes, bulkOk \in Outcomes :
         LET r == read_record_body(current_file, sd.files[current_file.path],
                                   length, peekOk, readOk, bulkOk)
         IN /\ lastOp' = "read_record"
            /\ lastArg' = length
            /\ ret' = r.ret
            /\ data' = r.data
            /\ trace' = r.trace
            /\ current_file' = [current_file EXCEPT !.pos = r.pos]
            /\ state' = IF r.failed THEN set_error(state, "FileSystemError").state ELSE state
            /\ error' = IF r.failed THEN set_error(state, "FileSystemError").error ELSE error
            /\ faults' = faults + B(r.fault)
            /\ read_back' = IF r.failed THEN <<>>
                            ELSE IF r.ret > 0
                            THEN Append(read_back, BytesAsFloats(r.data))
                            ELSE read_back
            /\ UNCHANGED <<last_file_index, current_recording_name, sd, written>>

\* ------------------------------------------------------------ close_recording
\* a close_recording that advances the cursor whatever was open
IndexAfterCloseAlways(st, index) == index + 1

\* _last_file_index after close_recording ran in state st
IndexAfterClose(st, index) == IF st = "Recording" THEN index + 1 ELSE index

close_recording ==
  IF state \notin {"Recording", "Reading"}
  THEN Refused("close_recording", FALSE)
  ELSE /\ lastOp' = "close_recording"
       /\ lastArg' = <<>>
       /\ data' = <<>>
       /\ ret' = TRUE
       /\ trace' = <<Lock, Ev("close", 1), Unlock>>
       /\ current_file' = NoFile
       /\ last_file_index' = IndexAfterClose(state, last_file_index)
       /\ current_recording_name' = IF state = "Recording" THEN <<>>
                                    ELSE current_recording_name
       /\ state' = "Idle"
       /\ read_back' = <<>>
       /\ UNCHANGED <<error, sd, faults, written>>

\* ------------------------------------------------------------------- history
IdleOps == {"list_recordings", "remove_recording", "create_new_recording",
            "open_recording"}

\* the step is a call of op made in a state the operation does not accept
WrongState(op) ==
  \/ op \in IdleOps /\ state # "Idle"
  \/ op = "write_record" /\ state # "Recording"
  \/ op = "read_record" /\ state # "Reading"
  \/ op = "close_recording" /\ state \notin {"Recording", "Reading"}

\* the calls of the reference session: record three values, read them back
ReferenceSession ==
  << [op |-> "create_new_recording", arg |-> <<>>],
     [op |-> "write_record", arg |-> Len(<<F1, F2, F3>>)],
     [op |-> "close_recording", arg |-> <<>>],
     [op |-> "open_recording", arg |-> FormatName(0)],
     [op |-> "read_record", arg |-> Max(Capacities)],
     [op |-> "read_record", arg |-> Max(Capacities)],
     [op |-> "close_recording", arg |-> <<>>] >>

\* the step is call k of the reference session, the medium not failing in it
SessionCall(k) ==
  LET call == ReferenceSession[k]
  IN /\ lastOp' = call.op
     /\ WrongState(call.op) \/ lastArg' = call.arg
     /\ faults' = faults

Mark(log, name, what) ==
  [n \in DOMAIN log \cup {name} |-> IF n = name THEN what ELSE log[n]]

\* what a call adds to the history variables
History ==
  /\ closed' = IF lastOp' = "close_recording" /\ state = "Recording"
                THEN Mark(closed, current_recording_name, "closed")
                ELSE IF lastOp' = "remove_recording" /\ ret'
                        /\ lastArg' \in DOMAIN closed
                THEN Mark(closed, lastArg', "removed")
                ELSE closed
  /\ progress' = IF progress \in 0..(Len(ReferenceSession) - 1)
                     /\ SessionCall(progress + 1)
                  THEN progress + 1
                  ELSE -1

\* the scan cursors create_new_recording is explored from: the one a new store
\* starts with, and the last ones before MaxIndex
EarlyOrLate ==
  \/ state # "Idle"
  \/ last_file_index = Members.last_file_index
  \/ last_file_index >= TailStart

Next ==
  \/ clear_error /\ History
  \/ list_recordings /\ History
  \/ \E name \in NameChoices : remove_recording(name) /\ History
  \/ EarlyOrLate /\ create_new_recording /\ History
  \/ \E values \in DataChoices, length \in {0, 1} :
       write_record(values, length * Len(values)) /\ History
  \/ \E name \in NameChoices : open_recording(name) /\ History
  \/ \E length \in Capacities : read_record(length) /\ History
  \/ close_recording /\ History

Spec == Init /\ [][Next]_vars

\* the store on a working medium with an empty /recordings, writing records
\* up to the longest length write_record accepts
InitRoundTrip ==
  /\ LET r == init(Members.state, Members.error, Card({}), TRUE, TRUE)
     IN /\ state = r.state
        /\ error = r.error
        /\ sd = r.sd
        /\ trace = r.trace
        /\ ret = r.ret
  /\ faults = MaxFaults
  /\ last_file_index = Members.last_file_index
  /\ written = NoLog
  /\ read_back = <<>>
  /\ current_file = NoFile
  /\ current_recording_name = <<>>
  /\ lastOp = "Storage"
  /\ lastArg = <<>>
  /\ data = <<>>
  /\ closed = <<>>
  /\ progress = IF Fresh THEN 0 ELSE -1

NextRoundTrip ==
  \/ clear_error /\ History
  \/ list_recordings /\ History
  \/ \E name \in NameChoices : remove_recording(name) /\ History
  \/ EarlyOrLate /\ create_new_recording /\ History
  \/ \E values \in LongChoices, length \in {0, 1} :
       write_record(values, length * Len(values)) /\ History
  \/ \E name \in NameChoices : open_recording(name) /\ History
  \/ \E length \in LongCapacities : read_record(length) /\ History
  \/ close_recording /\ History

SpecRoundTrip == InitRoundTrip /\ [][NextRoundTrip]_vars

\* the store on a medium whose /recordings is empty or holds recording 00000,
\* creating recordings from every scan cursor up to MaxCursor; its sessions
\* write no records (the names handed out do not depend on file contents)
InitReuse ==
  /\ \E card \in {Card({}), Card({0})} :
       LET r == init(Members.state, Members.error, card, TRUE, TRUE)
       IN /\ state = r.state
          /\ error = r.error
          /\ sd = r.sd
          /\ trace = r.trace
          /\ ret = r.ret
  /\ faults = 0
  /\ last_file_index = Members.last_file_index
  /\ written = NoLog
  /\ read_back = <<>>
  /\ current_file = NoFile
  /\ current_recording_name = <<>>
  /\ lastOp = "Storage"
  /\ lastArg = <<>>
  /\ data = <<>>
  /\ closed = <<>>
  /\ progress = IF Fresh THEN 0 ELSE -1

NextReuse ==
  \/ clear_error /\ History
  \/ list_recordings /\ History
  \/ \E name \in EarlyNames : remove_recording(name) /\ History
  \/ (state # "Idle" \/ last_file_index <= MaxCursor) /\ create_new_recording /\ History
  \/ \E values \in DataChoices : write_record(values, 0) /\ History
  \/ \E name \in EarlyNames : open_recording(name) /\ History
  \/ read_record(Max(Capacities)) /\ History
  \/ close_recording /\ History

SpecReuse == InitReuse /\ [][NextReuse]_vars

\* children of /recordings the store did not make: a file with an upper-case
\* extension, a file that is no recording, a file named by the extension alone
ForeignNames ==
  { <<"A", ".", "R", "E", "C">>, <<"n", ".", "t", "x", "t">>,
    <<".", "r", "e", "c">> }
\* a subdirectory of /recordings whose name ends like a recording
SubDir == DirPrefix \o <<"d">> \o RecExt
ForeignCard(name) ==
  [dir |-> TRUE, dirs |-> {SubDir}, files |-> (DirPrefix \o name) :> OldRecord]

\* the store on a medium whose /recordings holds a subdirectory and a file
\* that came from elsewhere; its sessions record, remove and list (reading
\* leaves the directory as it is) and meet at most one medium failure
InitListing ==
  /\ \E name \in ForeignNames :
       LET r == init(Members.state, Members.error, ForeignCard(name), TRUE, TRUE)
       IN /\ state = r.state
          /\ error = r.error
          /\ sd = r.sd
          /\ trace = r.trace
          /\ ret = r.ret
  /\ faults = MaxFaults - 1
  /\ last_file_index = Members.last_file_index
  /\ written = NoLog
  /\ read_back = <<>>
  /\ current_file = NoFile
  /\ current_recording_name = <<>>
  /\ lastOp = "Storage"
  /\ lastArg = <<>>
  /\ data = <<>>
  /\ closed = <<>>
  /\ progress = IF Fresh THEN 0 ELSE -1

NextListing ==
  \/ clear_error /\ History
  \/ list_recordings /\ History
  \/ remove_recording(FormatName(0)) /\ History
  \/ EarlyOrLate /\ create_new_recording /\ History
  \/ \E values \in DataChoices, length \in {0, 1} :
       write_record(values, length * Len(values)) /\ History
  \/ close_recording /\ History

SpecListing == InitListing /\ [][NextListing]_vars

\* ======================================================================
\* Properties
\* ======================================================================
\* the value an operation returns when it fails
FailureValue(op) ==
  CASE op \in {"list_recordings", "create_new_recording"} -> <<>>
    [] op = "read_record" -> 0
    [] OTHER -> FALSE

\* C1: an operation called in a state it does not accept returns its failure
\* value, takes no lock, makes no medium call and leaves state, error,
\* nextIndex, currentFile and currentRecordingName as they were.
C1_WrongStateChangesNothing ==
  [][ WrongState(lastOp') =>
        /\ ret' = FailureValue(lastOp')
        /\ trace' = <<>>
        /\ sd' = sd
        /\ UNCHANGED <<state, error, last_file_index, current_file,
                       current_recording_name>> ]_vars

\* a write_record refused in Idle, and a read_record refused in Error
C1_Witness ==
  /\ lastOp = "write_record" /\ state = "Idle" /\ ret = FALSE /\ trace = <<>>

\* C2: between operations, error # None exactly when state = Error.
C2_ErrorIffErrorState == (error # "None") <=> (state = "Error")

\* the store in Error after a failed medium write
C2_Witness ==
  /\ state = "Error" /\ error = "FileSystemError" /\ lastOp = "write_record"

\* C3: between operations, currentFile is open exactly when the state is
\* Recording or Reading.
C3_FileOpenIffActive ==
  current_file.open <=> state \in {"Recording", "Reading"}

\* C4: in Error every operation but clear_error fails and leaves state and
\* error alone; a step leaves Error only as a clear_error that succeeds, and
\* then state = Idle and error = None.
C4_ErrorIsSticky ==
  [][ state = "Error" =>
        IF lastOp' = "clear_error"
        THEN \/ ret' = TRUE /\ state' = "Idle" /\ error' = "None"
             \/ ret' = FALSE /\ state' = "Error" /\ error' # "None"
        ELSE /\ ret' = FailureValue(lastOp')
             /\ state' = "Error"
             /\ error' = error ]_vars

\* an open_recording refused while the store is in Error
C4_Witness ==
  /\ state = "Error" /\ lastOp = "open_recording" /\ ret = FALSE /\ trace = <<>>

\* the open file is the recording whose accepted writes the log holds
ReadingLogged ==
  /\ state = "Reading"
  /\ written.name # <<>>
  /\ current_file.path = build_recording_path(written.name)

\* C5: reading back a recording written on a working medium returns its
\* records in order, each with its count and values, for some capacity the
\* uint8_t argument admits, and then 0 at end of file without an error.
C5_RoundTrip ==
  ReadingLogged =>
    LET k == Len(read_back)
        content == sd.files[current_file.path]
        Read(capacity) == read_record_body(current_file, content, capacity,
                                           TRUE, TRUE, TRUE)
    IN /\ k <= Len(written.records)
       /\ read_back = SubSeq(written.records, 1, k)
       /\ IF k < Len(written.records)
          THEN \E capacity \in 0..MaxLen :
                 /\ Read(capacity).ret = Len(written.records[k + 1])
                 /\ BytesAsFloats(Read(capacity).data) = written.records[k + 1]
          ELSE \A capacity \in 0..MaxLen :
                 Read(capacity).ret = 0 /\ ~Read(capacity).failed

\* C6: a read_record whose capacity is at most the pending length byte L
\* returns -L and leaves position, state, error and medium alone; a
\* read_record right after it with capacity > L returns L and the L values
\* of that record (the medium calls of the step succeeding, the record whole).
C6_TooSmallConsumesNothing ==
  [][ (lastOp' = "read_record" /\ state = "Reading") =>
        LET content == sd.files[current_file.path]
            pos == current_file.pos
            L == content[pos + 1]
        IN pos < Len(content) =>
             /\ (lastArg' <= L /\ faults' = faults) =>
                  /\ ret' = -L
                  /\ UNCHANGED <<current_file, state, error, sd>>
             /\ (/\ lastOp = "read_record" /\ ret < 0
                 /\ lastArg' > L /\ faults' = faults
                 /\ pos + 1 + FloatSize * L <= Len(content)) =>
                  /\ L = -ret
                  /\ ret' = L
                  /\ data' = SubSeq(content, pos + 2, pos + 1 + FloatSize * L)
                  /\ current_file'.pos = pos + 1 + FloatSize * L
                  /\ state' = "Reading" /\ error' = error ]_vars

\* a read_record refused for lack of room, the store still Reading
C6_Witness ==
  /\ lastOp = "read_record" /\ state = "Reading" /\ ret < 0 /\ lastArg <= -ret
  /\ current_file.pos < Len(sd.files[current_file.path])
  /\ sd.files[current_file.path][current_file.pos + 1] = -ret

DigitValue(c) ==
  CASE c = "0" -> 0 [] c = "1" -> 1 [] c = "2" -> 2 [] c = "3" -> 3
    [] c = "4" -> 4 [] c = "5" -> 5 [] c = "6" -> 6 [] c = "7" -> 7
    [] c = "8" -> 8 [] c = "9" -> 9

\* the number a string of decimal digits denotes
RECURSIVE ParseDecimal(_)
ParseDecimal(digits) ==
  IF digits = <<>> THEN 0
  ELSE 10 * ParseDecimal(SubSeq(digits, 1, Len(digits) - 1))
       + DigitValue(digits[Len(digits)])

Occupied(i) == Exists(sd, build_recording_path(FormatName(i)))
\* every index from the cursor to MaxIndex - 1 names an existing recording
CardFull == \A i \in last_file_index..(MaxIndex - 1) : Occupied(i)

\* C7: create_new_recording in Idle selects the least index from nextIndex
\* to 9999 whose file does not exist; when the open succeeds it returns the
\* 5-digit name, sets currentRecordingName and currentFile and moves to
\* Recording; it reports TooManyFiles exactly when no such index is free.
C7_CreatePicksFirstFree ==
  [][ (lastOp' = "create_new_recording" /\ state = "Idle") =>
        /\ (error' = "TooManyFiles") <=> CardFull
        /\ CardFull => ret' = <<>>
        /\ (~CardFull /\ faults' = faults) => ret' # <<>>
        /\ ret' # <<>> =>
             LET chosen == ParseDecimal(ret')
             IN /\ Len(ret') = 5
                /\ chosen \in last_file_index..(MaxIndex - 1)
                /\ ~Occupied(chosen)
                /\ \A i \in last_file_index..(chosen - 1) : Occupied(i)
                /\ current_recording_name' = ret'
                /\ current_file'.open
                /\ current_file'.path = DirPrefix \o ret' \o RecExt
                /\ state' = "Recording" ]_vars

\* create_new_recording stepped over the occupied index 0 and chose 00001
C7_Witness ==
  /\ lastOp = "create_new_recording" /\ state = "Recording"
  /\ last_file_index = 0 /\ ret = <<"0", "0", "0", "0", "1">>

\* C8 as stated: a create_new_recording that finds no free index sets
\* error = TooManyFiles, returns failure and leaves the state at Idle.
C8_TooManyFilesStaysIdle ==
  [][ (lastOp' = "create_new_recording" /\ state = "Idle" /\ CardFull) =>
        /\ error' = "TooManyFiles"
        /\ ret' = <<>>
        /\ state' = "Idle" ]_vars

\* C8 amended: a create_new_recording that finds no free index sets
\* error = TooManyFiles, returns failure and moves the store to Error; medium,
\* cursor, file handle and recording name stay as they were.
C8_TooManyFilesGoesToError ==
  [][ (lastOp' = "create_new_recording" /\ state = "Idle" /\ CardFull) =>
        /\ error' = "TooManyFiles"
        /\ ret' = <<>>
        /\ state' = "Error"
        /\ UNCHANGED <<last_file_index, current_file, current_recording_name,
                       sd>> ]_vars

\* the store in Error with TooManyFiles after create_new_recording
C8_Witness ==
  /\ lastOp = "create_new_recording" /\ state = "Error"
  /\ error = "TooManyFiles" /\ ret = <<>>

\* C9: only close_recording from Recording changes nextIndex, by exactly one,
\* clearing currentRecordingName and going to Idle; close_recording from
\* Reading goes to Idle; every other call leaves nextIndex alone.
C9_IndexMovesOnlyOnRecordingClose ==
  [][ IF lastOp' = "close_recording" /\ state = "Recording"
      THEN /\ last_file_index' = last_file_index + 1
           /\ current_recording_name' = <<>>
           /\ state' = "Idle"
           /\ ret' = TRUE
      ELSE /\ last_file_index' = last_file_index
           /\ (lastOp' = "close_recording" /\ state = "Reading") =>
                (state' = "Idle" /\ ret' = TRUE) ]_vars

\* a recording closed: the cursor moved from 0 to 1
C9_Witness ==
  /\ lastOp = "close_recording" /\ ret = TRUE /\ state = "Idle"
  /\ last_file_index = 1 /\ written.name = <<"0", "0", "0", "0", "0">>

\* C10 as stated: nextIndex stays within 0..9999 and never decreases.
C10_IndexBelowLimit ==
  /\ [](last_file_index \in 0..(MaxIndex - 1))
  /\ [][last_file_index' >= last_file_index]_vars

\* C10 amended: nextIndex stays within 0..10000 and never decreases.
C10_IndexUpToLimit ==
  /\ [](last_file_index \in 0..MaxIndex)
  /\ [][last_file_index' >= last_file_index]_vars

\* the recording of index 9999 closed: the cursor stands at 10000
C10_Witness ==
  /\ last_file_index = MaxIndex /\ lastOp = "close_recording" /\ ret = TRUE

\* C11: once a recording created by create_new_recording has been closed, a
\* later create_new_recording returns its name only if the file was removed
\* since and nextIndex is at most its index at that call.
C11_ClosedNameNotReused ==
  [][ (lastOp' = "create_new_recording" /\ state = "Idle" /\ ret' # <<>>) =>
        (ret' \in DOMAIN closed =>
           /\ closed[ret'] = "removed"
           /\ last_file_index <= ParseDecimal(ret')) ]_vars

\* the name of a closed and then removed recording, handed out again
C11_Witness ==
  /\ lastOp = "create_new_recording" /\ state = "Recording"
  /\ ret \in DOMAIN closed /\ closed[ret] = "removed"

\* locks taken minus locks released over the first k events of a call
LockDepth(events, k) ==
  Cardinality({j \in 1..k : events[j] = Ev("lock", 0)})
  - Cardinality({j \in 1..k : events[j] = Ev("unlock", 0)})

Consistent(st, er, file, name) ==
  /\ file.open <=> st \in {"Recording", "Reading"}
  /\ name # <<>> => st = "Recording"
  /\ er # "None" <=> st = "Error"

\* C13: a clear_error called in Idle, Recording or Reading on a store whose
\* data-model invariants hold leaves them holding, and leaves a recording
\* that was open either still open in the same state or closed on the medium.
C13_ClearErrorKeepsStore ==
  [][ (/\ lastOp' = "clear_error" /\ state # "Error"
       /\ Consistent(state, error, current_file, current_recording_name)) =>
        /\ Consistent(state', error', current_file', current_recording_name')
        /\ current_file.open =>
             \/ current_file' = current_file /\ state' = state
             \/ \E k \in 1..Len(trace') : trace'[k][1] = "close" ]_vars

\* C14: open_recording(name) in Idle fails when /recordings/<name>.rec is
\* missing or cannot be opened, and then leaves state = Idle and error = None;
\* when the open succeeds it returns success with state = Reading and
\* currentFile the opened file, positioned at its start.
C14_OpenRecording ==
  [][ (lastOp' = "open_recording" /\ state = "Idle") =>
        LET path == DirPrefix \o lastArg' \o RecExt
        IN /\ ~Exists(sd, path) => ret' = FALSE
           /\ (Exists(sd, path) /\ faults' = faults) => ret' = TRUE
           /\ IF ret'
              THEN /\ Exists(sd, path)
                   /\ state' = "Reading"
                   /\ current_file' = [open |-> TRUE, path |-> path, pos |-> 0,
                                       writing |-> FALSE]
              ELSE state' = "Idle" /\ error' = "None"
           /\ sd' = sd ]_vars

\* an existing recording that could not be opened: the store stays Idle
C14_Witness ==
  /\ lastOp = "open_recording" /\ ret = FALSE /\ state = "Idle" /\ error = "None"
  /\ Exists(sd, DirPrefix \o lastArg \o RecExt)
  /\ trace = <<Ev("lock", 0), Ev("exists", 1), Ev("open", 0), Ev("unlock", 0)>>

\* C15: write_record in Recording with length 0 fails without a medium call
\* and changes nothing; with length >= 1 it either returns success, having
\* appended the length byte and the length * 4 payload bytes, the state still
\* Recording, or, a write having failed, returns failure with
\* error = FileSystemError and state = Error; it succeeds when the medium
\* does not fail.
C15_WriteRecord ==
  [][ (lastOp' = "write_record" /\ state = "Recording") =>
        LET path == current_file.path
            length == lastArg'
        IN IF length = 0
           THEN /\ ret' = FALSE
                /\ trace' = <<>>
                /\ UNCHANGED <<state, error, sd, current_file>>
           ELSE /\ faults' = faults => ret' = TRUE
                /\ IF ret'
                   THEN /\ Len(written'.records) = Len(written.records) + 1
                        /\ sd'.files[path] =
                             sd.files[path] \o <<length>>
                             \o FloatBytes(written'.records[Len(written'.records)])
                        /\ Len(sd'.files[path]) =
                             Len(sd.files[path]) + 1 + FloatSize * length
                        /\ state' = "Recording"
                        /\ error' = error
                   ELSE /\ state' = "Error"
                        /\ error' = "FileSystemError" ]_vars

Has(events, prim, result) == \E k \in 1..Len(events) : events[k] = Ev(prim, result)

\* what a run of initialize with the medium events given must have produced
InitializeOutcome(events, result, st, er, card) ==
  /\ Has(events, "mount", 0) =>
       result = FALSE /\ st = "Error" /\ er = "CanNotInitialize"
  /\ Has(events, "mkdir", 0) =>
       result = FALSE /\ st = "Error" /\ er = "FileSystemError"
  /\ ~Has(events, "mount", 0) /\ ~Has(events, "mkdir", 0) =>
       result = TRUE /\ st = "Idle" /\ er = "None" /\ card.dir

\* C16: initialize ends in Error with CanNotInitialize and failure when the
\* mount fails, in Error with FileSystemError and failure when /recordings
\* is missing and cannot be created, and otherwise in Idle with error None
\* and success; this holds of the construction and of every clear_error,
\* whose failure leaves the code of the new failure whatever the error was.
C16_InitializeOutcomes ==
  /\ [](lastOp = "Storage" => InitializeOutcome(trace, ret, state, error, sd))
  /\ [][ lastOp' = "clear_error" =>
            /\ Has(trace', "mount", 1) \/ Has(trace', "mount", 0)
            /\ InitializeOutcome(trace', ret', state', error', sd') ]_vars

\* a clear_error that failed creating /recordings after a failed construction
C16_Witness ==
  /\ lastOp = "clear_error" /\ ret = FALSE /\ state = "Error"
  /\ error = "FileSystemError" /\ faults = 1 /\ ~sd.dir
  /\ Has(trace, "mkdir", 0)

\* C17: on a new store over an empty /recordings, the medium not failing,
\* the reference session goes: create_new_recording returns "00000" in
\* Recording; write_record of 3 values succeeds; close_recording succeeds to
\* Idle with nextIndex 1; open_recording("00000") succeeds to Reading;
\* read_record with capacity 9 returns 3 and the values written; the next
\* read_record returns 0, still Reading, error None; close_recording
\* succeeds to Idle with nextIndex still 1.
C17_ReferenceSession ==
  /\ progress = 1 => ret = <<"0", "0", "0", "0", "0">> /\ state = "Recording"
  /\ progress = 2 => ret = TRUE /\ state = "Recording"
  /\ progress = 3 => ret = TRUE /\ state = "Idle" /\ last_file_index = 1
  /\ progress = 4 => ret = TRUE /\ state = "Reading"
  /\ progress = 5 => /\ ret = 3
                     /\ BytesAsFloats(data) = <<F1, F2, F3>>
                     /\ state = "Reading"
  /\ progress = 6 => ret = 0 /\ state = "Reading" /\ error = "None"
  /\ progress = 7 => ret = TRUE /\ state = "Idle" /\ last_file_index = 1
  /\ progress >= 0 => error = "None"

\* the reference session run to its end
C17_Witness ==
  /\ progress = Len(ReferenceSession)
  /\ lastOp = "close_recording" /\ state = "Idle"
  /\ sd.files = (build_recording_path(FormatName(0)) :> (<<3>> \o FloatBytes(<<F1, F2, F3>>)))

\* C18: a read_record in Reading that returns 0 does so either at the end
\* of the file, leaving state = Reading and error = None, or after a failed
\* read, leaving state = Error and error = FileSystemError; so after it
\* error = None exactly when the file was at its end.
C18_ZeroMeansEndOrError ==
  [][ (lastOp' = "read_record" /\ state = "Reading" /\ ret' = 0) =>
        LET atEnd == current_file.pos >= Len(sd.files[current_file.path])
        IN /\ IF atEnd
              THEN state' = "Reading" /\ error' = "None"
              ELSE state' = "Error" /\ error' = "FileSystemError"
           /\ error' = "None" <=> atEnd ]_vars

\* the name of a child of /recordings: its path without the directory
ChildName(path) == SubSeq(path, Len(DirPrefix) + 1, Len(path))
EndsInRec(name) ==
  Len(name) >= 4 /\ SubSeq(name, Len(name) - 3, Len(name)) = RecExt
EndsInRecAnyCase(name) ==
  /\ Len(name) >= 4
  /\ name[Len(name) - 3] = "."
  /\ name[Len(name) - 2] \in {"r", "R"}
  /\ name[Len(name) - 1] \in {"e", "E"}
  /\ name[Len(name)] \in {"c", "C"}

\* the children the directory reported in the step, in the order reported
Reported(events) ==
  LET IsChild(e) == e[1] = "openNextFile" /\ e[2] # <<>>
      children == SelectSeq(events, IsChild)
  IN [k \in 1..Len(children) |-> children[k][2]]

\* what list_recordings in Idle does, IsRecording telling which names count
ListsThe(IsRecording(_)) ==
  (lastOp' = "list_recordings" /\ state = "Idle") =>
    IF Has(trace', "open", 0)
    THEN ret' = <<>> /\ state' = "Error" /\ error' = "CanNotOpenFile"
    ELSE LET reported == Reported(trace')
             Wanted(path) == path \notin sd.dirs /\ IsRecording(ChildName(path))
             listed == SelectSeq(reported, Wanted)
         IN /\ Len(reported) = Cardinality(DOMAIN sd.files \cup sd.dirs)
            /\ {reported[k] : k \in 1..Len(reported)} = DOMAIN sd.files \cup sd.dirs
            /\ ret' = [k \in 1..Len(listed) |->
                         [name |-> SubSeq(ChildName(listed[k]), 1,
                                          Len(ChildName(listed[k])) - 4),
                          size |-> Len(sd.files[listed[k]])]]
            /\ state' = "Idle" /\ error' = "None"
            /\ last_file_index' = last_file_index
            /\ sd' = sd

\* C19 as stated: list_recordings in Idle returns empty with state = Error
\* and error = CanNotOpenFile when /recordings cannot be opened; otherwise
\* it returns, in directory order, one entry (name without prefix and
\* extension, size) for each non-directory child whose name ends in .rec,
\* and nothing else, leaving state = Idle, error = None, nextIndex and the
\* medium as they were.
C19_ListsNamesEndingInRec == [][ ListsThe(EndsInRec) ]_vars

\* C19 amended: as stated, the extension .rec compared without regard to case.
C19_ListsNamesEndingInRecAnyCase == [][ ListsThe(EndsInRecAnyCase) ]_vars

\* a listing of a directory holding a subdirectory d.rec, the file A.REC and
\* a recording the store made: the two files are listed
C19_Witness ==
  /\ lastOp = "list_recordings" /\ state = "Idle" /\ Len(ret) = 2
  /\ sd.dirs # {}
  /\ \E k \in 1..2 : ret[k] = [name |-> <<"A">>, size |-> Len(OldRecord)]
  /\ \E k \in 1..2 : ret[k].name = FormatName(0) /\ ret[k].size > 0

\* C20: remove_recording is refused outside Idle, so never runs in Recording
\* or Reading; in Idle it returns false and changes nothing when the file
\* /recordings/<name>.rec is missing; when the file exists it either returns
\* true, the file gone and nothing else on the medium touched, state Idle,
\* or, the removal failing, returns false with state = Error and
\* error = CanNotRemoveFile; nextIndex stays as it was.
C20_RemoveRecording ==
  [][ lastOp' = "remove_recording" =>
        IF state # "Idle"
        THEN /\ ret' = FALSE /\ trace' = <<>>
             /\ UNCHANGED <<state, error, sd, last_file_index, current_file>>
        ELSE LET path == DirPrefix \o lastArg' \o RecExt
             IN /\ last_file_index' = last_file_index
                /\ ~Exists(sd, path) =>
                     ret' = FALSE /\ UNCHANGED <<state, error, sd>>
                /\ Exists(sd, path) =>
                     /\ faults' = faults => ret' = TRUE
                     /\ IF ret'
                        THEN /\ ~Exists(sd', path)
                             /\ DOMAIN sd'.files = DOMAIN sd.files \ {path}
                             /\ \A p \in DOMAIN sd'.files : sd'.files[p] = sd.files[p]
                             /\ state' = "Idle" /\ error' = error
                        ELSE /\ state' = "Error"
                             /\ error' = "CanNotRemoveFile"
                             /\ sd' = sd ]_vars

\* a recording that could not be removed: the store is in Error, the file there
C20_Witness ==
  /\ lastOp = "remove_recording" /\ ret = FALSE
  /\ state = "Error" /\ error = "CanNotRemoveFile"
  /\ Exists(sd, DirPrefix \o lastArg \o RecExt)
====
